---- MODULE Spec2Model ----
(***************************************************************************)
(* dustloopbot-twitch: the connection loop of main.rs (main,               *)
(* web_socket_loop) and its line handling (parse_message_to_command,       *)
(* parse_frames_command, format_msg, format_move).                         *)
(*                                                                         *)
(* Strings are TLA+ strings; a character is a string of length 1.          *)
(***************************************************************************)
EXTENDS Integers, Sequences, FiniteSets, TLC

(***************************************************************************)
(* Bounds of the model.                                                    *)
(***************************************************************************)
\* pieces appended to a line head when the inbound lines are enumerated
MaxPieces == 2
\* inbound frames the peer delivers in one session
MaxReads == 2
\* connection attempts (calls of web_socket_loop) in one run
MaxAttempts == 2

(***************************************************************************)
(* str primitives of the standard library, as main.rs uses them.           *)
(***************************************************************************)
\* s.find(pat) from index i on: the index of the first occurrence, 0 if none
RECURSIVE find_from(_, _, _)
find_from(s, pat, i) ==
    IF i + Len(pat) - 1 > Len(s) THEN 0
    ELSE IF SubSeq(s, i, i + Len(pat) - 1) = pat THEN i
    ELSE find_from(s, pat, i + 1)

find(s, pat) == find_from(s, pat, 1)

\* s.rfind(pat) from index i down: the index of the last occurrence, 0 if none
RECURSIVE rfind_from(_, _, _)
rfind_from(s, pat, i) ==
    IF i < 1 THEN 0
    ELSE IF SubSeq(s, i, i + Len(pat) - 1) = pat THEN i
    ELSE rfind_from(s, pat, i - 1)

rfind(s, pat) == rfind_from(s, pat, Len(s) - Len(pat) + 1)

starts_with(s, pat) ==
    Len(s) >= Len(pat) /\ SubSeq(s, 1, Len(pat)) = pat

\* s.splitn(2, sep): at most two pieces, cut at the first occurrence of sep
splitn2(s, sep) ==
    LET i == find(s, sep)
    IN  IF i = 0
        THEN <<s>>
        ELSE <<SubSeq(s, 1, i - 1), SubSeq(s, i + Len(sep), Len(s))>>

\* s.split(sep): every piece, empty pieces included
RECURSIVE split(_, _)
split(s, sep) ==
    LET i == find(s, sep)
    IN  IF i = 0
        THEN <<s>>
        ELSE <<SubSeq(s, 1, i - 1)>> \o split(SubSeq(s, i + Len(sep), Len(s)), sep)

\* s.trim_end_matches(c): every trailing repetition of c removed
RECURSIVE trim_end_matches(_, _)
trim_end_matches(s, c) ==
    IF Len(s) >= Len(c) /\ SubSeq(s, Len(s) - Len(c) + 1, Len(s)) = c
    THEN trim_end_matches(SubSeq(s, 1, Len(s) - Len(c)), c)
    ELSE s

\* v.join(sep)
RECURSIVE join(_, _)
join(v, sep) ==
    IF Len(v) = 0 THEN ""
    ELSE IF Len(v) = 1 THEN v[1]
    ELSE v[1] \o sep \o join(Tail(v), sep)

\* the lower-case letter of each ASCII upper-case letter
LowerOf ==
    [A |-> "a", B |-> "b", C |-> "c", D |-> "d", E |-> "e", F |-> "f", G |-> "g",
     H |-> "h", I |-> "i", J |-> "j", K |-> "k", L |-> "l", M |-> "m", N |-> "n",
     O |-> "o", P |-> "p", Q |-> "q", R |-> "r", S |-> "s", T |-> "t", U |-> "u",
     V |-> "v", W |-> "w", X |-> "x", Y |-> "y", Z |-> "z"]

to_ascii_lowercase(c) == IF c \in DOMAIN LowerOf THEN LowerOf[c] ELSE c

\* a comparison that minds the case
eq_exact(a, b) == a = b

eq_ignore_ascii_case(a, b) ==
    /\ Len(a) = Len(b)
    /\ \A i \in 1..Len(a) :
          to_ascii_lowercase(SubSeq(a, i, i)) = to_ascii_lowercase(SubSeq(b, i, i))

(***************************************************************************)
(* The command grammar.                                                    *)
(***************************************************************************)
None == [tag |-> "None"]

\* the part of s before its first line feed: what `.*` can match from 1 on
DotRun(s) ==
    LET i == find(s, "\n") IN IF i = 0 THEN s ELSE SubSeq(s, 1, i - 1)

\* MATCH.captures(raw) for the pattern  PRIVMSG #(.*) :(.*)  : the leftmost
\* match, both groups greedy, `.` matching everything but a line feed.
RECURSIVE match_from(_, _)
match_from(raw, from) ==
    LET pre == "PRIVMSG #"
        i   == find_from(raw, pre, from)
        seg == DotRun(SubSeq(raw, i + Len(pre), Len(raw)))
        j   == rfind(seg, " :")
    IN  IF i = 0 THEN None
        ELSE IF j = 0 THEN match_from(raw, i + 1)
        ELSE [tag |-> "Some",
              g1  |-> SubSeq(seg, 1, j - 1),
              g2  |-> SubSeq(seg, j + 2, Len(seg))]

MATCH(raw) == match_from(raw, 1)

\* an extract that keeps the remainder as one argument
extract_unsplit(channel, msg) ==
    IF starts_with(msg, "!")
    THEN LET sp   == splitn2(msg, " ")
             root == trim_end_matches(sp[1], "\r")
             args == IF Len(sp) = 2
                     THEN <<trim_end_matches(sp[2], "\r")>>
                     ELSE <<>>
         IN  [tag |-> "Some", channel |-> channel, command |-> root, args |-> args]
    ELSE None

\* parse_message_to_command, from the test of the command marker on: the
\* Command built from the two captures, or None.
extract(channel, msg) ==
    IF starts_with(msg, "!")
    THEN LET sp   == splitn2(msg, " ")
             root == trim_end_matches(sp[1], "\r")
             args == IF Len(sp) = 2
                     THEN split(trim_end_matches(sp[2], "\r"), " ")
                     ELSE <<>>
         IN  [tag |-> "Some", channel |-> channel, command |-> root, args |-> args]
    ELSE None

\* a parser that takes a line the pattern does not match as the text itself
parse_message_to_command_lenient(raw) ==
    LET caps == MATCH(raw)
    IN  IF caps.tag = "None" THEN extract("", raw) ELSE extract(caps.g1, caps.g2)

parse_message_to_command(raw) ==
    LET caps == MATCH(raw)
    IN  IF caps.tag = "None" THEN None ELSE extract(caps.g1, caps.g2)

\* a parse_frames_command without the test of the move query
parse_frames_command_unchecked(args, found) ==
    IF Len(args) = 0
    THEN [result |-> [tag |-> "WrongArguments"], calls |-> <<>>]
    ELSE LET character_query == Head(args)
             move_query      == join(Tail(args), " ")
             asked           == <<[character |-> character_query,
                                   move |-> move_query, answer |-> found.tag]>>
         IN  IF found.tag = "Ok"
             THEN [result |-> found, calls |-> asked]
             ELSE IF found.tag = "UnknownCharacter"
             THEN [result |-> [tag |-> "UnknownCharacter", query |-> character_query],
                   calls |-> asked]
             ELSE [result |-> [tag |-> "UnknownMove", query |-> move_query],
                   calls |-> asked]

\* a parse_frames_command that echoes the wrong query in its two errors
parse_frames_command_swapped(args, found) ==
    IF Len(args) = 0
    THEN [result |-> [tag |-> "WrongArguments"], calls |-> <<>>]
    ELSE LET character_query == Head(args)
             move_query      == join(Tail(args), " ")
             asked           == <<[character |-> character_query,
                                   move |-> move_query, answer |-> found.tag]>>
         IN  IF move_query = ""
             THEN [result |-> [tag |-> "WrongArguments"], calls |-> <<>>]
             ELSE IF found.tag = "Ok"
             THEN [result |-> found, calls |-> asked]
             ELSE IF found.tag = "UnknownCharacter"
             THEN [result |-> [tag |-> "UnknownCharacter", query |-> move_query],
                   calls |-> asked]
             ELSE [result |-> [tag |-> "UnknownMove", query |-> character_query],
                   calls |-> asked]

\* a parse_frames_command that asks find_move a second time
parse_frames_command_asks_twice(args, found) ==
    IF Len(args) = 0
    THEN [result |-> [tag |-> "WrongArguments"], calls |-> <<>>]
    ELSE LET character_query == Head(args)
             move_query      == join(Tail(args), " ")
             asked           == <<[character |-> character_query,
                                   move |-> move_query, answer |-> found.tag]>>
         IN  IF move_query = ""
             THEN [result |-> [tag |-> "WrongArguments"], calls |-> <<>>]
             ELSE IF found.tag = "Ok"
             THEN [result |-> found, calls |-> asked]
             ELSE IF found.tag = "UnknownCharacter"
             THEN [result |-> [tag |-> "UnknownCharacter", query |-> character_query],
                   calls |-> asked \o asked]
             ELSE [result |-> [tag |-> "UnknownMove", query |-> move_query],
                   calls |-> asked \o asked]

\* parse_frames_command(args, data): found is what data.find_move answers when
\* it is asked; calls lists the calls of find_move made, each with its answer.
parse_frames_command(args, found) ==
    IF Len(args) = 0
    THEN [result |-> [tag |-> "WrongArguments"], calls |-> <<>>]
    ELSE LET character_query == Head(args)
             move_query      == join(Tail(args), " ")
             asked           == <<[character |-> character_query,
                                   move |-> move_query, answer |-> found.tag]>>
         IN  IF move_query = ""
             THEN [result |-> [tag |-> "WrongArguments"], calls |-> <<>>]
             ELSE IF found.tag = "Ok"
             THEN [result |-> found, calls |-> asked]
             ELSE IF found.tag = "UnknownCharacter"
             THEN [result |-> [tag |-> "UnknownCharacter", query |-> character_query],
                   calls |-> asked]
             ELSE [result |-> [tag |-> "UnknownMove", query |-> move_query],
                   calls |-> asked]

\* a format_msg with its two arguments exchanged
format_msg_swapped(text, channel) == "PRIVMSG #" \o text \o " :" \o channel

format_msg(text, channel) == "PRIVMSG #" \o channel \o " :" \o text

\* a format_move with on-block and on-hit exchanged
format_move_swapped(fmt) ==
    fmt.input \o ": dmg=(" \o fmt.damage \o ") guard=(" \o fmt.guard
      \o ") startup=(" \o fmt.startup \o ") active=(" \o fmt.active
      \o ") recov=(" \o fmt.recovery \o ") block=(" \o fmt.onhit
      \o ") hit=(" \o fmt.onblock \o ") atklvl=(" \o fmt.level \o ")"

format_move(fmt) ==
    fmt.input \o ": dmg=(" \o fmt.damage \o ") guard=(" \o fmt.guard
      \o ") startup=(" \o fmt.startup \o ") active=(" \o fmt.active
      \o ") recov=(" \o fmt.recovery \o ") block=(" \o fmt.onblock
      \o ") hit=(" \o fmt.onhit \o ") atklvl=(" \o fmt.level \o ")"

(***************************************************************************)
(* Configuration of main and the inputs of the model.                      *)
(***************************************************************************)
TWITCH_TOKEN == "tok"

nick == "dustloopbot"

RECURSIVE map_hash(_)
map_hash(v) == IF Len(v) = 0 THEN <<>> ELSE <<"#" \o Head(v)>> \o map_hash(Tail(v))

channels == join(map_hash(<<"sagan37", "BedlessSleeper", "fgcsand", "me_lolo">>), ",")

\* the records data.find_move can return
Moves ==
    {[input |-> "5K", damage |-> "8", guard |-> "mid", startup |-> "7",
      active |-> "3", recovery |-> "14", onblock |-> "-2", onhit |-> "+3",
      level |-> "1"],
     [input |-> "c.S", damage |-> "42", guard |-> "All", startup |-> "9",
      active |-> "6", recovery |-> "10", onblock |-> "+1", onhit |-> "+4",
      level |-> "3"]}

\* the answers of data.find_move
Answers ==
    {[tag |-> "Ok", move |-> m] : m \in Moves}
      \cup {[tag |-> "UnknownCharacter"], [tag |-> "UnknownMove"]}

\* inbound lines: a head followed by at most MaxPieces pieces
Pieces == {" ", ":", "!fd", "\r", "S", "k"}

Heads ==
    {"", "PING", "PING ", "PING :", "PING PRIVMSG #c :!fd S",
     "PRIVMSG #c :", ":n PRIVMSG #d :", "PRIVMSG #c :S ",
     "PRIVMSG #c :!fd", "PRIVMSG #c :!fd ", "PRIVMSG #d :!FD S",
     "PRIVMSG #c :!Fd S k", "PRIVMSG #d :!S", "PRIVMSG #c",
     "PRIVMSG #bar :!fd Sol 5K"}

RECURSIVE Flat(_)
Flat(v) == IF Len(v) = 0 THEN "" ELSE Head(v) \o Flat(Tail(v))

Tails == {Flat(v) : v \in UNION {[1..n -> Pieces] : n \in 0..MaxPieces}}

Lines == {h \o t : h \in Heads, t \in Tails}

\* what ws_stream.next() can deliver: a frame with text, or one whose bytes
\* are not UTF-8 (to_text fails)
Frames == {[tag |-> "Text", text |-> l] : l \in Lines} \cup {[tag |-> "NotUtf8"]}

(***************************************************************************)
(* State.                                                                  *)
(***************************************************************************)
VARIABLES
    pc,        \* where main / web_socket_loop stands
    res,       \* Result of the last awaited operation: "-", "Ok", "Err", "Eof"
    attempts,  \* calls of web_socket_loop so far
    log,       \* completed transport operations of the session, in order:
               \* the first word of each frame sent, "recv" for each frame read
    msg,       \* the frame being handled (None before the first)
    command,   \* parse_message_to_command(text) of that frame, None if not run
    result,    \* parse_frames_command(..) of that command, None if not run
    calls,     \* the find_move calls made for that frame
    out        \* the frames handed to ws_stream.send for that frame

vars == <<pc, res, attempts, log, msg, command, result, calls, out>>

Reads == Cardinality({i \in 1..Len(log) : log[i] = "recv"})

\* a main that calls web_socket_loop once and returns
main_loop_no_retry(val) == "exit_ok"

\* main, lines 20-26: the session returned val
main_loop(val) == IF val = "Err" THEN "connect" ELSE "exit_ok"

\* a reply built with split in place of splitn(2, ..)
pong_split(text) == "PONG " \o split(text, " ")[2]

\* lines 44-45: the reply to a keepalive line that has a separator
pong(text) == "PONG " \o splitn2(text, " ")[2]

\* a handler that sends nothing for WrongArguments
replies_silent_usage(r, channel) ==
    LET text == CASE r.tag = "Ok" -> format_move(r.move)
                  [] r.tag = "UnknownCharacter" ->
                       "Currently unknown character: '" \o r.query \o "'"
                  [] r.tag = "UnknownMove" ->
                       "Currently unknown move: '" \o r.query \o "'"
                  [] r.tag = "WrongArguments" -> ""
    IN  IF r.tag = "WrongArguments" THEN <<>> ELSE <<format_msg(text, channel)>>

\* lines 52-70: the frames sent for the result r of parse_frames_command
replies(r, channel) ==
    LET text == CASE r.tag = "Ok" -> format_move(r.move)
                  [] r.tag = "UnknownCharacter" ->
                       "Currently unknown character: '" \o r.query \o "'"
                  [] r.tag = "UnknownMove" ->
                       "Currently unknown move: '" \o r.query \o "'"
                  [] r.tag = "WrongArguments" ->
                       "Invalid args, try: !frames <char> <move_query>"
    IN  <<format_msg(text, channel)>>

\* a loop body whose keepalive branch lacks the `continue`
handle_no_continue(m, found) ==
    LET idle == [command |-> None, result |-> None, calls |-> <<>>,
                 out |-> <<>>, panic |-> FALSE]
        ping == m.tag = "Text" /\ starts_with(m.text, "PING")
        sent == IF ping THEN <<pong(m.text)>> ELSE <<>>
    IN  IF m.tag # "Text" THEN idle
        ELSE IF ping /\ Len(splitn2(m.text, " ")) < 2
        THEN [idle EXCEPT !.panic = TRUE]
        ELSE LET c == parse_message_to_command(m.text)
             IN  IF c.tag = "None" THEN [idle EXCEPT !.out = sent]
                 ELSE IF ~eq_ignore_ascii_case(c.command, "!fd")
                 THEN [idle EXCEPT !.command = c, !.out = sent]
                 ELSE LET r == parse_frames_command(c.args, found)
                      IN  [command |-> c, result |-> r.result, calls |-> r.calls,
                           out |-> sent \o replies(r.result, c.channel),
                           panic |-> FALSE]

\* the loop body of web_socket_loop, lines 40-72, for a frame m: everything
\* up to the send it ends in (found: the answer of find_move, if asked)
handle(m, found) ==
    LET idle == [command |-> None, result |-> None, calls |-> <<>>,
                 out |-> <<>>, panic |-> FALSE]
    IN  IF m.tag # "Text" THEN idle
        ELSE IF starts_with(m.text, "PING")
        THEN IF Len(splitn2(m.text, " ")) < 2
             THEN [idle EXCEPT !.panic = TRUE]
             ELSE [idle EXCEPT !.out = <<pong(m.text)>>]
        ELSE LET c == parse_message_to_command(m.text)
             IN  IF c.tag = "None" THEN idle
                 ELSE IF ~eq_ignore_ascii_case(c.command, "!fd")
                 THEN [idle EXCEPT !.command = c]
                 ELSE LET r == parse_frames_command(c.args, found)
                      IN  [command |-> c, result |-> r.result, calls |-> r.calls,
                           out |-> replies(r.result, c.channel), panic |-> FALSE]

\* the ways the loop body can handle m: find_move answers only if it is asked
Outcomes(m) ==
    LET h == handle(m, [tag |-> "UnknownMove"])
    IN  IF h.calls = <<>> THEN {h} ELSE {handle(m, found) : found \in Answers}

Last(v) == v[Len(v)]

\* the first word of a frame
Word(frame) == splitn2(frame, " ")[1]

Init ==
    /\ pc = "main"
    /\ res = "-"
    /\ attempts = 0
    /\ log = <<>>
    /\ msg = None
    /\ command = None
    /\ result = None
    /\ calls = <<>>
    /\ out = <<>>

\* a main that goes on without the token
Main_without_token ==
    /\ pc = "main"
    /\ \E present \in BOOLEAN :
          /\ res' = IF present THEN "Ok" ELSE "Err"
          /\ pc' = "connect"
    /\ UNCHANGED <<attempts, log, msg, command, result, calls, out>>

\* main, lines 14-20: read TWITCH_TOKEN, build the setup values, first call
Main ==
    /\ pc = "main"
    /\ \E present \in BOOLEAN :
          /\ res' = IF present THEN "Ok" ELSE "Err"
          /\ pc' = IF present THEN "connect" ELSE "exit_err"
    /\ UNCHANGED <<attempts, log, msg, command, result, calls, out>>

\* line 30: connect_async(url).await?
Connect ==
    /\ pc = "connect"
    /\ attempts < MaxAttempts
    /\ attempts' = attempts + 1
    /\ log' = <<>>
    /\ msg' = None
    /\ command' = None
    /\ result' = None
    /\ calls' = <<>>
    /\ out' = <<>>
    /\ \E ok \in BOOLEAN :
          /\ res' = IF ok THEN "Ok" ELSE "Err"
          /\ pc' = IF ok THEN "send_pass" ELSE main_loop("Err")

\* lines 32-34: one of the three setup sends
Setup(at, frame, next) ==
    /\ pc = at
    /\ out' = <<frame>>
    /\ \E ok \in BOOLEAN :
          /\ res' = IF ok THEN "Ok" ELSE "Err"
          /\ log' = IF ok THEN Append(log, Word(frame)) ELSE log
          /\ pc' = IF ok THEN next ELSE main_loop("Err")
    /\ UNCHANGED <<attempts, msg, command, result, calls>>

\* the identity line sent in place of the credential line
SendPass_nick_first == Setup("send_pass", "NICK " \o nick, "send_nick")

SendPass == Setup("send_pass", "PASS " \o TWITCH_TOKEN, "send_nick")

SendNick == Setup("send_nick", "NICK " \o nick, "send_join")

SendJoin == Setup("send_join", "JOIN " \o channels, "load")

\* line 36: ggstdl::load().await.expect(..)
Load ==
    /\ pc = "load"
    /\ \E ok \in BOOLEAN :
          /\ res' = IF ok THEN "Ok" ELSE "Err"
          /\ pc' = IF ok THEN "next" ELSE "panic"
    /\ out' = <<>>
    /\ UNCHANGED <<attempts, log, msg, command, result, calls>>

\* lines 38-39: ws_stream.next().await ends the stream or fails
NextNone ==
    /\ pc = "next"
    /\ \E r \in {"Eof", "Err"} :
          /\ res' = r
          /\ pc' = IF r = "Eof" THEN "close" ELSE main_loop("Err")
    /\ msg' = None
    /\ command' = None
    /\ result' = None
    /\ calls' = <<>>
    /\ out' = <<>>
    /\ UNCHANGED <<attempts, log>>

\* lines 38-72: ws_stream.next().await yields a frame, which is handled up to
\* the send it ends in, or to the end of the loop body
NextSome ==
    /\ pc = "next"
    /\ Reads < MaxReads
    /\ \E m \in Frames :
          \E h \in Outcomes(m) :
             /\ msg' = m
             /\ command' = h.command
             /\ result' = h.result
             /\ calls' = h.calls
             /\ out' = h.out
             /\ pc' = IF h.panic THEN "panic"
                       ELSE IF h.out # <<>> THEN "send" ELSE "continue"
    /\ res' = "Ok"
    /\ log' = Append(log, "recv")
    /\ UNCHANGED attempts

\* a send that hands the frame over a second time after it has completed
Send_twice ==
    /\ pc = "send"
    /\ \E ok \in BOOLEAN :
          /\ res' = IF ok THEN "Ok" ELSE "Err"
          /\ log' = IF ok THEN Append(log, Word(out[1])) ELSE log
          /\ pc' = IF ~ok THEN main_loop("Err")
                    ELSE IF Last(log) = "recv" THEN "send" ELSE "continue"
    /\ UNCHANGED <<attempts, msg, command, result, calls, out>>

\* lines 45, 55, 60, 63, 66: ws_stream.send(..).await? of the PONG or reply
Send ==
    /\ pc = "send"
    /\ \E ok \in BOOLEAN :
          /\ res' = IF ok THEN "Ok" ELSE "Err"
          /\ log' = IF ok THEN Append(log, Word(out[1])) ELSE log
          /\ pc' = IF ok THEN "continue" ELSE main_loop("Err")
    /\ UNCHANGED <<attempts, msg, command, result, calls, out>>

\* lines 46, 73-74: the loop body ends, its locals are dropped
Continue ==
    /\ pc = "continue"
    /\ pc' = "next"
    /\ msg' = None
    /\ command' = None
    /\ result' = None
    /\ calls' = <<>>
    /\ out' = <<>>
    /\ UNCHANGED <<res, attempts, log>>

\* lines 75-76: ws_stream.close(None).await?; Ok(())
Close ==
    /\ pc = "close"
    /\ \E ok \in BOOLEAN :
          /\ res' = IF ok THEN "Ok" ELSE "Err"
          /\ pc' = IF ok THEN main_loop("Ok") ELSE main_loop("Err")
    /\ UNCHANGED <<attempts, log, msg, command, result, calls, out>>

Next ==
    \/ Main
    \/ Connect
    \/ SendPass
    \/ SendNick
    \/ SendJoin
    \/ Load
    \/ NextNone
    \/ NextSome
    \/ Send
    \/ Continue
    \/ Close

Spec == Init /\ [][Next]_vars

(***************************************************************************)
(* Properties.                                                             *)
(***************************************************************************)
\* the part of line after its first n characters
After(line, n) == SubSeq(line, n + 1, Len(line))

\* the frame being handled is the text line that starts with pre
Handling(pre) == msg.tag = "Text" /\ starts_with(msg.text, pre)

\* C1: when connect_async, one of the three setup sends, the receive or the
\* send of a PONG or reply fails, the very next state is the one in which main
\* calls web_socket_loop (connect_async) again, whatever the number of
\* attempts made before.
C1_FailureReconnects ==
    [][(pc \in {"connect", "send_pass", "send_nick", "send_join", "next", "send"}
          /\ res' = "Err")
        => pc' = "connect"]_vars

\* a session of a later attempt failed after it had read a frame
C1_Witness ==
    pc = "connect" /\ res = "Err" /\ attempts >= 2 /\ Len(log) > 3

\* C2: once TWITCH_TOKEN has been read the process reaches no terminal state;
\* in particular the end of the inbound stream ends the session and leads to a
\* new connection attempt, so that main never returns Ok(()).
C2_MainNeverReturns == pc # "exit_ok"

\* C3: in every session the transport operations begin with the sends of
\* PASS <token>, NICK <nick>, JOIN <channels>, in that order, before any frame
\* is read and before any PONG or PRIVMSG.
C3_SetupFirst ==
    /\ \A i \in 1..Len(log) : i <= 3 => log[i] = <<"PASS", "NICK", "JOIN">>[i]
    /\ pc \in {"load", "next", "send", "continue", "close"} => Len(log) >= 3
    /\ pc = "send_nick" => log = <<"PASS">> /\ out = <<"PASS tok">>
    /\ pc = "send_join" => log = <<"PASS", "NICK">> /\ out = <<"NICK dustloopbot">>
    /\ pc = "load" =>
          /\ log = <<"PASS", "NICK", "JOIN">>
          /\ out = <<"JOIN #sagan37,#BedlessSleeper,#fgcsand,#me_lolo">>

\* a session started by a reconnect has sent its setup lines and read a frame
C3_Witness == attempts >= 2 /\ Len(log) >= 4 /\ log[4] = "recv"

\* C4: for an inbound line PING, one space, payload, the frame handed to send
\* is PONG, one space, and the same payload.
C4_PongEchoesPayload ==
    Handling("PING ") => out = <<"PONG " \o After(msg.text, 5)>>

\* a PONG was sent for a payload with a leading colon and a further space
C4_Witness ==
    /\ pc = "continue"
    /\ res = "Ok"
    /\ Handling("PING :")
    /\ find(After(msg.text, 5), " ") # 0
    /\ Last(log) = "PONG"

\* the channels of the enumerated lines
Channels == {"c", "d", "bar"}

\* the text put into the line PRIVMSG #ch :<text> being handled
Text(ch) == After(msg.text, Len("PRIVMSG #" \o ch \o " :"))

\* C5: for an inbound line PRIVMSG #<channel> :<text> the parser recovers the
\* channel and the text that were put into the line, a trailing carriage
\* return apart, whatever the text (a space followed by a colon included).
C5_RoundTrip ==
    \A ch \in Channels :
       Handling("PRIVMSG #" \o ch \o " :") =>
          LET caps == MATCH(msg.text)
          IN  /\ caps.tag = "Some"
              /\ caps.g1 = ch
              /\ trim_end_matches(caps.g2, "\r") = trim_end_matches(Text(ch), "\r")
              /\ starts_with(Text(ch), "!") =>
                    command.tag = "Some" /\ command.channel = ch

\* verbs and argument tokens of command texts
Verbs == {"fd", "FD", "Fd", "S"}

ArgTokens == {"S", "k"}

ArgSeqs == UNION {[1..n -> ArgTokens] : n \in 0..3}

\* the command text made of the marker, a verb and argument tokens
CommandText(verb, toks) ==
    "!" \o verb \o (IF Len(toks) = 0 THEN "" ELSE " " \o join(toks, " "))

\* every verb and argument sequence with the command text made of them
CommandTexts ==
    {[verb |-> verb, toks |-> toks, text |-> CommandText(verb, toks)] :
        verb \in Verbs, toks \in ArgSeqs}

\* the text the frame being handled hands to extract, if any: the second
\* capture of the pattern
Handed ==
    IF msg.tag = "Text" /\ ~starts_with(msg.text, "PING")
    THEN {caps.g2 : caps \in {MATCH(msg.text)} \ {None}}
    ELSE {}

\* C6, as claimed: for the command text !<verb> <token> .. <token> the Command
\* has the verb as its name and the tokens, in order, as its args.
C6_NameIsVerb ==
    \A text \in Handed : \A ct \in CommandTexts :
       text = ct.text =>
          /\ command.tag = "Some"
          /\ command.command = ct.verb
          /\ command.args = ct.toks

\* C6, amended: for the command text !<verb> <token> .. <token> the Command
\* has the marker followed by the verb as its name (!fd) and the tokens, in
\* order, as its args; args is empty when no token follows the verb.
C6_NameIsMarkerVerb ==
    \A text \in Handed : \A ct \in CommandTexts :
       text = ct.text =>
          /\ command.tag = "Some"
          /\ command.command = "!" \o ct.verb
          /\ command.args = ct.toks

\* a command text with three argument tokens was extracted
C6_Witness ==
    /\ \E text \in Handed : \E ct \in CommandTexts :
          Len(ct.toks) = 3 /\ text = ct.text
    /\ command.tag = "Some"
    /\ Len(command.args) = 3

\* C7: a channel message whose text does not start with ! yields no Command,
\* no find_move call and no outbound frame.
C7_NoMarkerNoCommand ==
    \A ch \in Channels :
       (Handling("PRIVMSG #" \o ch \o " :") /\ ~starts_with(Text(ch), "!")) =>
          command = None /\ calls = <<>> /\ out = <<>>

\* C8: parse_frames_command on no argument, or on the character token alone,
\* returns WrongArguments and does not call find_move.
C8_WrongArguments ==
    (result # None /\ Len(command.args) <= 1) =>
       result = [tag |-> "WrongArguments"] /\ calls = <<>>

\* the recognized command was dispatched with the character token alone
C8_Witness ==
    result # None /\ Len(command.args) = 1 /\ command.args[1] = "S"

\* C9: when find_move answers UnknownCharacter the result is UnknownCharacter
\* with the first argument token as typed; when it answers UnknownMove the
\* result is UnknownMove with the other tokens rejoined with single spaces.
C9_UnknownEchoesQuery ==
    calls # <<>> =>
       /\ calls[1].answer = "UnknownCharacter" =>
             result = [tag |-> "UnknownCharacter", query |-> command.args[1]]
       /\ calls[1].answer = "UnknownMove" =>
             result = [tag |-> "UnknownMove",
                       query |-> join(Tail(command.args), " ")]

\* find_move answered UnknownMove to a query of two tokens
C9_Witness ==
    /\ calls # <<>>
    /\ calls[1].answer = "UnknownMove"
    /\ command.args = <<"S", "k", "k">>
    /\ result.tag = "UnknownMove"

Errors == {"UnknownCharacter", "UnknownMove", "WrongArguments"}

\* C10: a command-level error hands exactly one PRIVMSG frame to send; when
\* that send succeeds the loop body ends and the loop goes on to the next
\* frame; the session ends only if the send fails.
C10_ErrorRepliesOnce ==
    result.tag \in Errors =>
       /\ Len(out) = 1
       /\ Word(out[1]) = "PRIVMSG"
       /\ \/ pc = "send"
          \/ /\ pc = "continue"
             /\ res = "Ok"
             /\ Last(log) = "PRIVMSG"
             /\ log[Len(log) - 1] = "recv"
          \/ pc = "connect" /\ res = "Err"

\* the reply to an unknown character was sent and the loop goes on
C10_Witness ==
    /\ pc = "continue"
    /\ res = "Ok"
    /\ result.tag = "UnknownCharacter"
    /\ Last(log) = "PRIVMSG"

\* C11: the reply to an inbound line PRIVMSG #c :<text> is a frame
\* PRIVMSG #c :<reply> with the same c, whatever the channel and the text.
C11_ReplyToSameChannel ==
    \A ch \in Channels : \A pre \in {"", ":n "} :
       Handling(pre \o "PRIVMSG #" \o ch \o " :") =>
          \A i \in 1..Len(out) : starts_with(out[i], "PRIVMSG #" \o ch \o " :")

\* the reply to a command in channel d, on a line with a prefix, was sent
C11_Witness ==
    /\ pc = "continue"
    /\ res = "Ok"
    /\ Handling(":n PRIVMSG #d :!fd")
    /\ result.tag = "WrongArguments"
    /\ Last(log) = "PRIVMSG"

\* the reply texts of the two records of Moves, written out
Rendered ==
    [input \in {"5K", "c.S"} |->
       IF input = "5K"
       THEN "5K: dmg=(8) guard=(mid) startup=(7) active=(3) recov=(14) "
              \o "block=(-2) hit=(+3) atklvl=(1)"
       ELSE "c.S: dmg=(42) guard=(All) startup=(9) active=(6) recov=(10) "
              \o "block=(+1) hit=(+4) atklvl=(3)"]

\* C12: on a successful lookup the reply text is the input, a colon and the
\* fields dmg, guard, startup, active, recov, block, hit, atklvl in this
\* order, each value as find_move returned it; PRIVMSG #bar :!fd Sol 5K with
\* the record (5K, 8, mid, 7, 3, 14, -2, +3, 1) gives the frame of the example.
C12_MoveRendering ==
    /\ result.tag = "Ok" =>
          out = <<"PRIVMSG #" \o command.channel \o " :"
                    \o Rendered[result.move.input]>>
    /\ (Handling("PRIVMSG #bar :!fd Sol 5K") /\ Len(msg.text) = 24
          /\ result.tag = "Ok" /\ result.move.input = "5K") =>
          out = <<"PRIVMSG #bar :5K: dmg=(8) guard=(mid) startup=(7) active=(3) "
                    \o "recov=(14) block=(-2) hit=(+3) atklvl=(1)">>

\* the reply of the example was sent
C12_Witness ==
    /\ pc = "continue"
    /\ res = "Ok"
    /\ Handling("PRIVMSG #bar :!fd Sol 5K")
    /\ Len(msg.text) = 24
    /\ result.tag = "Ok"
    /\ result.move.input = "5K"
    /\ Last(log) = "PRIVMSG"

\* the spellings of the recognized command name
Recognized == {"!fd", "!fD", "!Fd", "!FD"}

\* C13: a command named !fd in any letter casing is dispatched; a command of
\* any other name causes no lookup and no outbound frame, and the loop goes
\* on to the next frame.
C13_OnlyFdDispatched ==
    command.tag = "Some" =>
       IF command.command \in Recognized
       THEN result # None /\ Len(out) = 1
       ELSE /\ result = None
            /\ calls = <<>>
            /\ out = <<>>
            /\ pc = "continue"
            /\ res = "Ok"
            /\ Last(log) = "recv"

\* a command spelled !FD was dispatched
C13_Witness ==
    command.tag = "Some" /\ command.command = "!FD" /\ result # None

\* the transport operations of the session after the three setup sends
Traffic == SubSeq(log, 4, Len(log))

\* C14: the frames of a session are handled one at a time, in arrival order:
\* a PONG or reply follows directly the read of the line that triggered it,
\* and it has been sent, or has failed and ended the session, before the
\* next frame is read.
C14_OneAtATime ==
    /\ \A i \in 1..Len(Traffic) :
          Traffic[i] # "recv" => i > 1 /\ Traffic[i - 1] = "recv"
    /\ pc = "send" => Len(out) = 1 /\ Last(log) = "recv"
    /\ (pc = "continue" /\ out # <<>>) =>
          /\ Last(log) = Word(out[1])
          /\ log[Len(log) - 1] = "recv"
    /\ (pc = "next" /\ Traffic # <<>>) => msg = None /\ out = <<>>

\* two lines were read and answered, a keepalive and then a command
C14_Witness ==
    pc = "continue" /\ Traffic = <<"recv", "PONG", "recv", "PRIVMSG">>

\* C15: when TWITCH_TOKEN is missing the process ends with the error at once:
\* no connection is attempted and no frame is sent.
C15_MissingTokenAborts ==
    /\ pc = "exit_err" => res = "Err" /\ attempts = 0 /\ log = <<>> /\ out = <<>>
    /\ (res = "Err" /\ attempts = 0) => pc = "exit_err"

\* main returned the error of the missing token
C15_Witness == pc = "exit_err" /\ res = "Err" /\ attempts = 0

\* C16: every line that begins with PING, with or without a separator after
\* the marker, is answered by exactly one PONG frame and never ends the
\* process.
C16_PingAlwaysPong ==
    Handling("PING") => pc # "panic" /\ Len(out) = 1 /\ Word(out[1]) = "PONG"

\* C17: a line that begins with PING is answered by the PONG alone, even when
\* the rest of the line is a complete !fd command: no Command is parsed,
\* parse_frames_command and find_move are not called, no PRIVMSG is sent.
C17_KeepaliveShortCircuits ==
    Handling("PING") =>
       /\ command = None
       /\ result = None
       /\ calls = <<>>
       /\ \A i \in 1..Len(out) : Word(out[i]) = "PONG"
       /\ pc = "continue" => Last(log) = "PONG" /\ log[Len(log) - 1] = "recv"

\* the PONG for a keepalive line that carries a whole command was sent
C17_Witness ==
    /\ pc = "continue"
    /\ res = "Ok"
    /\ Handling("PING PRIVMSG #c :!fd S k")
    /\ out = <<"PONG PRIVMSG #c :!fd S k">>

\* the line holds no PRIVMSG #<channel> :<text>
Unmatched(line) ==
    LET i == find(line, "PRIVMSG #")
    IN  i = 0 \/ find(After(line, i + 8), " :") = 0

\* C18: a line that is neither a keepalive nor a channel message is ignored:
\* no Command, no lookup, no outbound frame, no error; the loop goes on to
\* the next frame.
C18_UnmatchedIgnored ==
    (msg.tag = "Text" /\ ~starts_with(msg.text, "PING") /\ Unmatched(msg.text)) =>
       /\ command = None
       /\ result = None
       /\ calls = <<>>
       /\ out = <<>>
       /\ pc = "continue"
       /\ res = "Ok"
       /\ Last(log) = "recv"

\* a line with the marker PRIVMSG # but no text part was ignored
C18_Witness ==
    /\ pc = "continue"
    /\ Handling("PRIVMSG #c!fd")
    /\ Unmatched(msg.text)
    /\ out = <<>>

\* C19: find_move is called only with a character query and a move query
\* that are both non-empty; an empty one yields WrongArguments.
C19_LookupNeedsBothQueries ==
    /\ calls # <<>> => calls[1].character # "" /\ calls[1].move # ""
    /\ (result # None /\ Len(command.args) >= 1 /\ command.args[1] = "") =>
          result.tag = "WrongArguments"

\* the outbound frames of the session after the three setup sends
Sent == Cardinality({i \in 1..Len(Traffic) : Traffic[i] # "recv"})

\* C20: a frame read causes at most one outbound frame and at most one call
\* of find_move, and the PONG and PRIVMSG frames sent in a session are never
\* more than the frames read.
C20_AtMostOnePerFrame ==
    /\ Len(out) <= 1
    /\ Len(calls) <= 1
    /\ Sent <= Reads
    /\ pc = "send" => Sent < Reads

\* both frames read were answered, the second after a call of find_move
C20_Witness == Reads = 2 /\ Sent = 2 /\ Len(calls) = 1 /\ pc = "continue"

====
